---- MODULE Spec2Model ----
(***************************************************************************)
(* Model of the ai-sidecar service (src/ai-sidecar/src): the conversation  *)
(* history and its prompt rendering (history.rs), the engine call          *)
(* (llm.rs), the shared state behind two tokio mutexes (server.rs) and the *)
(* three request handlers (api/v1.rs).                                     *)
(*                                                                         *)
(* Strings are sequences of one-character strings, so that concatenation,  *)
(* trimming and comparison are computed as the code computes them.         *)
(***************************************************************************)
EXTENDS Integers, Sequences, FiniteSets, TLC

VARIABLES
    ai_active,      \* the bool inside AppState.ai_active
    ai_lock,        \* the task holding the ai_active mutex, or NoTask
    ai_wait,        \* tasks suspended in ai_active.lock().await, oldest first
    history,        \* the History inside AppState.history: [system, history]
    history_lock,   \* the task holding the history mutex, or NoTask
    history_wait,   \* tasks suspended in history.lock().await, oldest first
    pc,             \* pc[t]: where the handler run by task t stands
    op,             \* op[t]: the route task t was dispatched to
    hdr,            \* hdr[t]: the request's "secret" header
    req,            \* req[t]: the GenerateRequest body
    out,            \* out[t]: what generate_text returned to the handler of t
    resp,           \* resp[t]: the response of the handler (received once pc[t] = "done")
    pre,            \* history.history when the running generate_text was entered
    arrivedBusy,    \* arrivedBusy[t]: a generate call was in flight when t arrived
    rendered,       \* the last string History::get / get_with_system returned
                    \* (in the service: the argument of ctx.advance_context)
    call            \* the last method called on a History value on its own

vars == <<ai_active, ai_lock, ai_wait, history, history_lock, history_wait,
          pc, op, hdr, req, out, resp, pre, arrivedBusy, rendered, call>>

-----------------------------------------------------------------------------
(* Bounds of the model *)

\* number of concurrent requests (one task per request)
NumTasks == 2

\* a bare History is pushed to while it holds fewer turns than this
MaxPush == 3

Tasks == 1..NumTasks

NoTask == 0

None == <<"None">>

Some(v) == <<"Some", v>>

-----------------------------------------------------------------------------
(* history.rs *)

SYSTEM == <<"<", "|", "s", "y", "s", "t", "e", "m", "|", ">", "\n">>

USER == <<"<", "|", "u", "s", "e", "r", "|", ">", "\n">>

ASSISTANT == <<"<", "|", "a", "s", "s", "i", "s", "t", "a", "n", "t", "|", ">", "\n">>

\* the literal that follows the content in Message::get's format string
TERMINATOR == <<"<", "/", "s", ">", "\n">>

GREETING == <<"H", "e", "l", "l", "o", ",", " ", "h", "o", "w", " ", "m", "a", "y",
              " ", "I", " ", "h", "e", "l", "p", " ", "y", "o", "u", " ", "t", "o",
              "d", "a", "y", "?">>

MessageType == {"System", "User", "Assistant"}

\* impl Display for MessageType
Display(message_type) ==
    CASE message_type = "System" -> SYSTEM
      [] message_type = "User" -> USER
      [] message_type = "Assistant" -> ASSISTANT

Message(message_type, content) ==
    [message_type |-> message_type, content |-> content]

\* Message::get
MessageGet(message) ==
    Display(message.message_type) \o message.content \o TERMINATOR

\* char::is_whitespace on the characters the model uses
IsWhitespace(c) == c \in {" ", "\n", "\t", "\r"}

RECURSIVE TrimStart(_)
TrimStart(s) ==
    IF s = <<>> THEN <<>>
    ELSE IF IsWhitespace(Head(s)) THEN TrimStart(Tail(s))
    ELSE s

RECURSIVE TrimEnd(_)
TrimEnd(s) ==
    IF s = <<>> THEN <<>>
    ELSE IF IsWhitespace(s[Len(s)]) THEN TrimEnd(SubSeq(s, 1, Len(s) - 1))
    ELSE s

\* str::trim
Trim(s) == TrimEnd(TrimStart(s))

\* the for loop of History::get_inner over self.history.iter()
RECURSIVE AppendMessages(_, _)
AppendMessages(prompt, messages) ==
    IF messages = <<>> THEN prompt
    ELSE AppendMessages(prompt \o MessageGet(Head(messages)), Tail(messages))

\* get_inner that appends headers::ASSISTANT as it is, without trim()
get_inner_untrimmed(self, prompt) ==
    AppendMessages(prompt, self.history) \o ASSISTANT

\* History::get_inner
get_inner(self, prompt) ==
    AppendMessages(prompt, self.history) \o Trim(ASSISTANT)

\* History::new
HistoryNew(system_content) ==
    [system |-> Message("System", system_content),
     history |-> <<Message("Assistant", GREETING)>>]

\* History::get
get(self) == get_inner(self, MessageGet(self.system))

\* get_with_system that renders the stored system turn, not the override
get_with_system_stored(self, system_content) ==
    get_inner(self, MessageGet(self.system))

\* History::get_with_system
get_with_system(self, system_content) ==
    get_inner(self, MessageGet(Message("System", system_content)))

\* History::push
push(self, message_type, content) ==
    [self EXCEPT !.history = Append(@, Message(message_type, content))]

\* clear that keeps the first stored turn (truncate(1) in place of clear())
clear_keep_first(self) ==
    [self EXCEPT !.history = IF @ = <<>> THEN <<>> ELSE <<Head(@)>>]

\* History::clear
clear(self) == [self EXCEPT !.history = <<>>]

-----------------------------------------------------------------------------
(* Inputs the requests are drawn from *)

\* AI_SIDECAR_SECRET, read once in serve()
SECRET == <<"k", "e", "y">>

\* content of default_system_message.txt
SYSTEM_MESSAGE == <<"B", "e", " ", "k", "i", "n", "d", ".">>

\* a header byte that is not visible ASCII: HeaderValue::to_str fails on it
OpaqueBytes == {"0xFF"}

\* the "secret" header of a request: absent, the secret, another text, not text
Headers == {None, Some(SECRET), Some(<<"k", "e">>), Some(<<"k", "e", "y", "0xFF">>)}

Prompts == {<<"h", "i">>, <<"2", "+", "2", "?">>}

Setups == {None, Some(<<"T", "e", "r", "s", "e">>)}

\* what the completion of the engine can be
Outputs == {<<"4">>}

GenerateRequest == [setup : Setups, prompt : Prompts]

NoRequest == [setup |-> None, prompt |-> <<>>]

Response(status, type, message) ==
    [status |-> status, type |-> type, message |-> message]

NoResponse == Response(0, "none", <<>>)

Call(method, message_type, content, result) ==
    [method |-> method, message_type |-> message_type, content |-> content,
     result |-> result]

NoCall == Call("none", "none", <<>>, <<>>)

\* system messages and turn contents a History is exercised with
SystemContents == {SYSTEM_MESSAGE, <<>>}

Contents == {<<"h", "i">>, <<" ", "\n">>}

\* the message of the GenerateError body (line 149)
GENERATE_ERROR_MESSAGE ==
    <<"u", "n", "a", "b", "l", "e", " ", "t", "o", " ", "c", "r", "e", "a",
      "t", "e", " ", "t", "o", "k", "e", "n", " ", "g", "e", "n", "e",
      "r", "a", "t", "i", "o", "n", " ", "s", "t", "r", "e", "a", "m">>

-----------------------------------------------------------------------------
(* tokio::sync::Mutex: lock().await suspends the caller until the mutex is  *)
(* handed to it; waiters are served first come, first served.              *)

MutexState(holder, waiters) == [holder |-> holder, waiters |-> waiters]

\* Mutex::lock, first poll: take the free mutex or join the wait queue
MutexLock(holder, waiters, t) ==
    IF holder = NoTask
    THEN MutexState(t, waiters)
    ELSE MutexState(holder, Append(waiters, t))

\* a release that takes the oldest waiter off the queue without handing it
\* the mutex
MutexUnlock_lost_wakeup(holder, waiters) ==
    IF waiters = <<>>
    THEN MutexState(NoTask, <<>>)
    ELSE MutexState(NoTask, Tail(waiters))

\* drop of the MutexGuard: the mutex passes to the oldest waiter, if any
MutexUnlock(holder, waiters) ==
    IF waiters = <<>>
    THEN MutexState(NoTask, <<>>)
    ELSE MutexState(Head(waiters), Tail(waiters))

-----------------------------------------------------------------------------
(* api/v1.rs *)

\* HeaderValue::to_str: Ok only if every byte is visible ASCII
to_str_ok(value) == \A i \in 1..Len(value) : value[i] \notin OpaqueBytes

\* valid_header that only looks whether the header is there
valid_header_present_only(headers, expected) == headers # None

\* valid_header
valid_header(headers, expected) ==
    IF headers = None THEN FALSE
    ELSE IF ~to_str_ok(headers[2]) THEN FALSE
    ELSE headers[2] = expected

\* a generate call is in flight from the moment it set ai_active to true
\* (line 140) until its handler has returned
InFlightPc == {"g_history", "g_advance", "g_complete", "g_output", "g_assistant",
               "g_drop_history", "g_drop_active"}

InFlight(t) == pc[t] \in InFlightPc

SomeInFlight == \E u \in Tasks : InFlight(u)

\* the request is handed to a handler: route, headers and body are fixed
Dispatch(t, route, headers, body) ==
    /\ pc[t] = "idle"
    /\ op' = [op EXCEPT ![t] = route]
    /\ hdr' = [hdr EXCEPT ![t] = headers]
    /\ req' = [req EXCEPT ![t] = body]

\* lines 48-51, 76-79, 129-132: the 401 return of a handler
Unauthorized(t) ==
    /\ resp' = [resp EXCEPT ![t] = Response(401, "busy", <<>>)]
    /\ pc' = [pc EXCEPT ![t] = "done"]
    /\ UNCHANGED <<ai_active, ai_lock, ai_wait, history, history_lock,
                   history_wait, arrivedBusy>>

\* lines 53, 82, 134: state.ai_active.lock().await is polled for the first time
LockAiActive(t, next) ==
    LET m == MutexLock(ai_lock, ai_wait, t) IN
    /\ ai_lock' = m.holder
    /\ ai_wait' = m.waiters
    /\ pc' = [pc EXCEPT ![t] = next]
    /\ arrivedBusy' = [arrivedBusy EXCEPT ![t] = SomeInFlight]
    /\ UNCHANGED <<ai_active, history, history_lock, history_wait, resp>>

\* drop of the ai_active guard
UnlockAiActive ==
    LET m == MutexUnlock(ai_lock, ai_wait) IN
    /\ ai_lock' = m.holder
    /\ ai_wait' = m.waiters

\* drop of the history guard
UnlockHistory ==
    LET m == MutexUnlock(history_lock, history_wait) IN
    /\ history_lock' = m.holder
    /\ history_wait' = m.waiters

\* handle_is_busy up to its first await (lines 43-53)
handle_is_busy_start(t, headers) ==
    /\ Dispatch(t, "isbusy", headers, NoRequest)
    /\ IF ~valid_header(headers, SECRET)
       THEN Unauthorized(t)
       ELSE LockAiActive(t, "s_locked")
    /\ UNCHANGED <<out, pre, rendered, call>>

\* handle_is_busy once it holds ai_active (lines 53-62)
handle_is_busy_read(t) ==
    /\ pc[t] = "s_locked"
    /\ ai_lock = t
    /\ resp' = [resp EXCEPT ![t] =
                   Response(200, IF ai_active THEN "busy" ELSE "ready", <<>>)]
    /\ UnlockAiActive
    /\ pc' = [pc EXCEPT ![t] = "done"]
    /\ UNCHANGED <<ai_active, history, history_lock, history_wait, op, hdr, req,
                   out, pre, arrivedBusy, rendered, call>>

\* clear_history up to its first await (lines 71-82)
clear_history_start(t, headers) ==
    /\ Dispatch(t, "clearhistory", headers, NoRequest)
    /\ IF ~valid_header(headers, SECRET)
       THEN Unauthorized(t)
       ELSE LockAiActive(t, "c_locked")
    /\ UNCHANGED <<out, pre, rendered, call>>

\* clear_history that empties the history before it looks at ai_active
clear_history_check_clears_first(t) ==
    /\ pc[t] = "c_locked"
    /\ ai_lock = t
    /\ history' = clear(history)
    /\ IF ai_active
       THEN /\ resp' = [resp EXCEPT ![t] = Response(409, "busy", <<>>)]
            /\ pc' = [pc EXCEPT ![t] = "done"]
       ELSE /\ pc' = [pc EXCEPT ![t] = "c_idle"]
            /\ UNCHANGED resp
    /\ UnlockAiActive
    /\ UNCHANGED <<ai_active, history_lock, history_wait, op, hdr, req,
                   out, pre, arrivedBusy, rendered, call>>

\* clear_history once it holds ai_active: the idle check and the end of the
\* block that scopes the guard (lines 82-87)
clear_history_check(t) ==
    /\ pc[t] = "c_locked"
    /\ ai_lock = t
    /\ IF ai_active
       THEN /\ resp' = [resp EXCEPT ![t] = Response(409, "busy", <<>>)]
            /\ pc' = [pc EXCEPT ![t] = "done"]
       ELSE /\ pc' = [pc EXCEPT ![t] = "c_idle"]
            /\ UNCHANGED resp
    /\ UnlockAiActive
    /\ UNCHANGED <<ai_active, history, history_lock, history_wait, op, hdr, req,
                   out, pre, arrivedBusy, rendered, call>>

\* clear_history: state.history.lock().await is polled for the first time (line 89)
clear_history_lock(t) ==
    LET m == MutexLock(history_lock, history_wait, t) IN
    /\ pc[t] = "c_idle"
    /\ history_lock' = m.holder
    /\ history_wait' = m.waiters
    /\ pc' = [pc EXCEPT ![t] = "c_history"]
    /\ UNCHANGED <<ai_active, ai_lock, ai_wait, history, op, hdr, req, out, resp,
                   pre, arrivedBusy, rendered, call>>

\* clear_history that clears without waiting for the history mutex
clear_history_clear_unlocked(t) ==
    /\ pc[t] = "c_history"
    /\ history' = clear(history)
    /\ resp' = [resp EXCEPT ![t] = Response(200, "success", <<>>)]
    /\ IF history_lock = t
       THEN UnlockHistory
       ELSE /\ history_wait' = SelectSeq(history_wait, LAMBDA w : w # t)
            /\ UNCHANGED history_lock
    /\ pc' = [pc EXCEPT ![t] = "done"]
    /\ UNCHANGED <<ai_active, ai_lock, ai_wait, op, hdr, req, out, pre,
                   arrivedBusy, rendered, call>>

\* clear_history once it holds history (lines 89-93)
clear_history_clear(t) ==
    /\ pc[t] = "c_history"
    /\ history_lock = t
    /\ history' = clear(history)
    /\ resp' = [resp EXCEPT ![t] = Response(200, "success", <<>>)]
    /\ UnlockHistory
    /\ pc' = [pc EXCEPT ![t] = "done"]
    /\ UNCHANGED <<ai_active, ai_lock, ai_wait, op, hdr, req, out, pre,
                   arrivedBusy, rendered, call>>

\* impl Into<llm::Options> for GenerateRequest
into(self) == [setup |-> self.setup, prompt |-> self.prompt]

\* handle_generate up to its first await (lines 120-134)
handle_generate_start(t, headers, body) ==
    /\ Dispatch(t, "generate", headers,
                IF valid_header(headers, SECRET) THEN body ELSE NoRequest)
    /\ IF ~valid_header(headers, SECRET)
       THEN Unauthorized(t)
       ELSE LockAiActive(t, "g_locked")
    /\ UNCHANGED <<out, pre, rendered, call>>

\* handle_generate without lines 134-139: the slot is claimed without the
\* mutex being awaited and without the busy check
handle_generate_claim_unguarded(t) ==
    LET m == MutexLock(history_lock, history_wait, t) IN
    /\ pc[t] = "g_locked"
    /\ ai_active' = TRUE
    /\ history_lock' = m.holder
    /\ history_wait' = m.waiters
    /\ pc' = [pc EXCEPT ![t] = "g_history"]
    /\ UNCHANGED <<ai_lock, ai_wait, resp, req>>
    /\ UNCHANGED <<history, op, hdr, out, pre, arrivedBusy, rendered, call>>

\* handle_generate once it holds ai_active: the busy check, the claim of the
\* slot and the first poll of state.history.lock().await (lines 134-143)
handle_generate_claim(t) ==
    /\ pc[t] = "g_locked"
    /\ ai_lock = t
    /\ IF ai_active
       THEN /\ resp' = [resp EXCEPT ![t] = Response(409, "busy", <<>>)]
            /\ pc' = [pc EXCEPT ![t] = "done"]
            /\ req' = [req EXCEPT ![t] = NoRequest]
            /\ UnlockAiActive
            /\ UNCHANGED <<ai_active, history_lock, history_wait>>
       ELSE LET m == MutexLock(history_lock, history_wait, t) IN
            /\ ai_active' = TRUE
            /\ history_lock' = m.holder
            /\ history_wait' = m.waiters
            /\ pc' = [pc EXCEPT ![t] = "g_history"]
            /\ UNCHANGED <<ai_lock, ai_wait, resp, req>>
    /\ UNCHANGED <<history, op, hdr, out, pre, arrivedBusy, rendered, call>>

\* the Err return of handle_generate (lines 145-153): the let-else leaves
\* the handler with the 500 response; the guards are dropped on the way out
generate_error(t) ==
    /\ resp' = [resp EXCEPT ![t] =
                   Response(500, "generate_error", GENERATE_ERROR_MESSAGE)]
    /\ pc' = [pc EXCEPT ![t] = "g_drop_history"]

\* generate_text that renders the prompt before it pushes the User turn
generate_text_session_render_first(t, ok) ==
    /\ pc[t] = "g_history"
    /\ history_lock = t
    /\ pre' = history.history
    /\ IF ok
       THEN LET opts == into(req[t])
            IN /\ history' = push(history, "User", opts.prompt)
               /\ rendered' = IF opts.setup = None
                              THEN get(history)
                              ELSE get_with_system(history, opts.setup[2])
               /\ pc' = [pc EXCEPT ![t] = "g_advance"]
               /\ UNCHANGED resp
       ELSE /\ generate_error(t)
            /\ UNCHANGED <<history, rendered>>
    /\ UNCHANGED <<ai_active, ai_lock, ai_wait, history_lock, history_wait,
                   op, hdr, req, out, arrivedBusy, call>>

\* llm::generate_text, entered with both guards held: create_session, then
\* the push of the User turn and the rendering of the prompt (llm.rs 23-38)
generate_text_session(t, ok) ==
    /\ pc[t] = "g_history"
    /\ history_lock = t
    /\ pre' = history.history
    /\ IF ok
       THEN LET opts == into(req[t])
                pushed == push(history, "User", opts.prompt)
            IN /\ history' = pushed
               /\ rendered' = IF opts.setup = None
                              THEN get(pushed)
                              ELSE get_with_system(pushed, opts.setup[2])
               /\ pc' = [pc EXCEPT ![t] = "g_advance"]
               /\ UNCHANGED resp
       ELSE /\ generate_error(t)
            /\ UNCHANGED <<history, rendered, call>>
    /\ UNCHANGED <<ai_active, ai_lock, ai_wait, history_lock, history_wait,
                   op, hdr, req, out, arrivedBusy, call>>

\* a failing advance_context after which the handler resets ai_active
generate_text_advance_releases(t, ok) ==
    /\ pc[t] = "g_advance"
    /\ IF ok
       THEN /\ pc' = [pc EXCEPT ![t] = "g_complete"]
            /\ UNCHANGED <<resp, ai_active>>
       ELSE /\ generate_error(t)
            /\ ai_active' = FALSE
    /\ UNCHANGED <<ai_lock, ai_wait, history, history_lock,
                   history_wait, op, hdr, req, out, pre, arrivedBusy, rendered, call>>

\* generate_text that takes the User turn back when advance_context fails
generate_text_advance_rollback(t, ok) ==
    /\ pc[t] = "g_advance"
    /\ IF ok
       THEN /\ pc' = [pc EXCEPT ![t] = "g_complete"]
            /\ UNCHANGED <<resp, history>>
       ELSE /\ generate_error(t)
            /\ history' = [history EXCEPT !.history = pre]
    /\ UNCHANGED <<ai_active, ai_lock, ai_wait, history_lock,
                   history_wait, op, hdr, req, out, pre, arrivedBusy, rendered, call>>

\* llm::generate_text: ctx.advance_context(prompt)? (llm.rs 35-38)
generate_text_advance(t, ok) ==
    /\ pc[t] = "g_advance"
    /\ IF ok
       THEN /\ pc' = [pc EXCEPT ![t] = "g_complete"]
            /\ UNCHANGED resp
       ELSE generate_error(t)
    /\ UNCHANGED <<ai_active, ai_lock, ai_wait, history, history_lock,
                   history_wait, op, hdr, req, out, pre, arrivedBusy, rendered, call>>

\* a failing start_completing_with after which the handler resets ai_active
generate_text_complete_releases(t, ok, output) ==
    /\ pc[t] = "g_complete"
    /\ IF ok
       THEN /\ out' = [out EXCEPT ![t] = Some(output)]
            /\ pc' = [pc EXCEPT ![t] = "g_output"]
            /\ UNCHANGED <<resp, ai_active>>
       ELSE /\ generate_error(t)
            /\ ai_active' = FALSE
            /\ UNCHANGED out
    /\ UNCHANGED <<ai_lock, ai_wait, history, history_lock,
                   history_wait, op, hdr, req, pre, arrivedBusy, rendered, call>>

\* llm::generate_text: start_completing_with(..)? and the Ok return (llm.rs 40-52)
generate_text_complete(t, ok, output) ==
    /\ pc[t] = "g_complete"
    /\ IF ok
       THEN /\ out' = [out EXCEPT ![t] = Some(output)]
            /\ pc' = [pc EXCEPT ![t] = "g_output"]
            /\ UNCHANGED resp
       ELSE /\ generate_error(t)
            /\ UNCHANGED out
    /\ UNCHANGED <<ai_active, ai_lock, ai_wait, history, history_lock,
                   history_wait, op, hdr, req, pre, arrivedBusy, rendered, call>>

\* handle_generate that drops the ai_active guard as soon as it has reset the flag
handle_generate_success_release(t) ==
    /\ pc[t] = "g_output"
    /\ ai_active' = FALSE
    /\ UnlockAiActive
    /\ pc' = [pc EXCEPT ![t] = "g_assistant"]
    /\ UNCHANGED <<history, history_lock, history_wait, op, hdr, req,
                   out, resp, pre, arrivedBusy, rendered, call>>

\* handle_generate after generate_text returned Ok(output): the flag is reset
\* (line 155)
handle_generate_success(t) ==
    /\ pc[t] = "g_output"
    /\ ai_active' = FALSE
    /\ pc' = [pc EXCEPT ![t] = "g_assistant"]
    /\ UNCHANGED <<ai_lock, ai_wait, history, history_lock, history_wait, op, hdr,
                   req, out, resp, pre, arrivedBusy, rendered, call>>

\* handle_generate: the Assistant turn is pushed and the 200 response is
\* built (lines 156-162)
handle_generate_push(t) ==
    /\ pc[t] = "g_assistant"
    /\ history' = push(history, "Assistant", out[t][2])
    /\ resp' = [resp EXCEPT ![t] = Response(200, "success", out[t][2])]
    /\ pc' = [pc EXCEPT ![t] = "g_drop_history"]
    /\ UNCHANGED <<ai_active, ai_lock, ai_wait, history_lock, history_wait, op,
                   hdr, req, out, pre, arrivedBusy, rendered, call>>

\* handle_generate returns: the history guard, declared last, is dropped first
handle_generate_drop_history(t) ==
    /\ pc[t] = "g_drop_history"
    /\ UnlockHistory
    /\ pc' = [pc EXCEPT ![t] = "g_drop_active"]
    /\ UNCHANGED <<ai_active, ai_lock, ai_wait, history, op, hdr, req, out,
                   resp, pre, arrivedBusy, rendered, call>>

\* handle_generate returns: the ai_active guard is dropped, then the request
\* body and the engine output; the response leaves
handle_generate_drop_active(t) ==
    /\ pc[t] = "g_drop_active"
    /\ UnlockAiActive
    /\ req' = [req EXCEPT ![t] = NoRequest]
    /\ out' = [out EXCEPT ![t] = None]
    /\ pc' = [pc EXCEPT ![t] = "done"]
    /\ UNCHANGED <<ai_active, history, history_lock, history_wait, op, hdr,
                   resp, pre, arrivedBusy, rendered, call>>

-----------------------------------------------------------------------------
(* server.rs *)

\* serve(): the AppState the router is built with; no request has arrived
Init ==
    /\ ai_active = FALSE
    /\ ai_lock = NoTask
    /\ ai_wait = <<>>
    /\ history = HistoryNew(SYSTEM_MESSAGE)
    /\ history_lock = NoTask
    /\ history_wait = <<>>
    /\ pc = [t \in Tasks |-> "idle"]
    /\ op = [t \in Tasks |-> "none"]
    /\ hdr = [t \in Tasks |-> None]
    /\ req = [t \in Tasks |-> NoRequest]
    /\ out = [t \in Tasks |-> None]
    /\ resp = [t \in Tasks |-> NoResponse]
    /\ pre = <<>>
    /\ arrivedBusy = [t \in Tasks |-> FALSE]
    /\ rendered = <<>>
    /\ call = NoCall

Next ==
    \/ \E t \in Tasks, h \in Headers : handle_is_busy_start(t, h)
    \/ \E t \in Tasks : handle_is_busy_read(t)
    \/ \E t \in Tasks, h \in Headers : clear_history_start(t, h)
    \/ \E t \in Tasks : clear_history_check(t)
    \/ \E t \in Tasks : clear_history_lock(t)
    \/ \E t \in Tasks : clear_history_clear(t)
    \/ \E t \in Tasks, h \in Headers, b \in GenerateRequest :
          handle_generate_start(t, h, b)
    \/ \E t \in Tasks : handle_generate_claim(t)
    \/ \E t \in Tasks, ok \in BOOLEAN : generate_text_session(t, ok)
    \/ \E t \in Tasks, ok \in BOOLEAN : generate_text_advance(t, ok)
    \/ \E t \in Tasks, ok \in BOOLEAN, o \in Outputs :
          generate_text_complete(t, ok, o)
    \/ \E t \in Tasks : handle_generate_success(t)
    \/ \E t \in Tasks : handle_generate_push(t)
    \/ \E t \in Tasks : handle_generate_drop_history(t)
    \/ \E t \in Tasks : handle_generate_drop_active(t)

Spec == Init /\ [][Next]_vars

\* the steps of the handler run by task t after its request was dispatched
Handler(t) ==
    \/ handle_is_busy_read(t)
    \/ clear_history_check(t)
    \/ clear_history_lock(t)
    \/ clear_history_clear(t)
    \/ handle_generate_claim(t)
    \/ \E ok \in BOOLEAN : generate_text_session(t, ok)
    \/ \E ok \in BOOLEAN : generate_text_advance(t, ok)
    \/ \E ok \in BOOLEAN, o \in Outputs : generate_text_complete(t, ok, o)
    \/ handle_generate_success(t)
    \/ handle_generate_push(t)
    \/ handle_generate_drop_history(t)
    \/ handle_generate_drop_active(t)

\* the runtime polls every task that can run, the engine calls return, and
\* the mutexes hand over first come, first served (MutexUnlock)
SpecFair == Init /\ [][Next]_vars /\ \A t \in Tasks : WF_vars(Handler(t))

-----------------------------------------------------------------------------
(* history.rs on its own: a History is built by History::new and its        *)
(* methods are then called in any order, as tests::display does             *)

ServiceVars == <<ai_active, ai_lock, ai_wait, history_lock, history_wait, pc, op,
                 hdr, req, out, resp, pre, arrivedBusy, rendered>>

InitHistory ==
    /\ ai_active = FALSE
    /\ ai_lock = NoTask
    /\ ai_wait = <<>>
    /\ \E system_content \in SystemContents : history = HistoryNew(system_content)
    /\ history_lock = NoTask
    /\ history_wait = <<>>
    /\ pc = [t \in Tasks |-> "idle"]
    /\ op = [t \in Tasks |-> "none"]
    /\ hdr = [t \in Tasks |-> None]
    /\ req = [t \in Tasks |-> NoRequest]
    /\ out = [t \in Tasks |-> None]
    /\ resp = [t \in Tasks |-> NoResponse]
    /\ pre = <<>>
    /\ arrivedBusy = [t \in Tasks |-> FALSE]
    /\ rendered = <<>>
    /\ call = Call("new", "System", history.system.content, <<>>)

CallPush(message_type, content) ==
    /\ Len(history.history) < MaxPush
    /\ history' = push(history, message_type, content)
    /\ call' = Call("push", message_type, content, <<>>)
    /\ UNCHANGED ServiceVars

CallClear ==
    /\ history' = clear(history)
    /\ call' = Call("clear", "none", <<>>, <<>>)
    /\ UNCHANGED ServiceVars

CallGet ==
    /\ call' = Call("get", "none", <<>>, get(history))
    /\ UNCHANGED <<history, ServiceVars>>

CallGetWithSystem(system_content) ==
    /\ call' = Call("get_with_system", "System", system_content,
                    get_with_system(history, system_content))
    /\ UNCHANGED <<history, ServiceVars>>

NextHistory ==
    \/ \E message_type \in MessageType, content \in Contents :
          CallPush(message_type, content)
    \/ CallClear
    \/ CallGet
    \/ \E system_content \in Contents : CallGetWithSystem(system_content)

SpecHistory == InitHistory /\ [][NextHistory]_vars

-----------------------------------------------------------------------------
(* Properties of the service *)

GenerateTasks == {t \in Tasks : op[t] = "generate"}

Returned(t) == pc[t] = "done"

\* C1: whatever generate requests run concurrently, at most one of them is
\* between its claim of the slot (ai_active set to true) and the return of
\* its handler
C1_AtMostOneInFlight == Cardinality({t \in Tasks : InFlight(t)}) <= 1

\* a generate call is in flight while another authorized generate request,
\* which arrived meanwhile, stands at ai_active.lock().await
C1_Witness ==
    \E t, u \in Tasks :
        /\ InFlight(t)
        /\ op[u] = "generate" /\ pc[u] = "g_locked" /\ arrivedBusy[u]

\* C2: an authorized generate request that arrives while another generate
\* call is in flight never claims the slot (it is not queued and run later),
\* pushes no turn, and its response is 409 busy
C2_BusyGenerateRejected ==
    \A t \in GenerateTasks :
        arrivedBusy[t] =>
            /\ pc[t] \in {"g_locked", "done"}
            /\ Returned(t) => resp[t] = Response(409, "busy", <<>>)

\* C3: once the handler of a generate call has returned 200 or 500 and no
\* other generate call is in flight, ai_active is false
C3_SlotReleasedOnReturn ==
    (/\ \E t \in GenerateTasks : Returned(t) /\ resp[t].status \in {200, 500}
     /\ ~SomeInFlight)
        => ~ai_active

\* C4: an authorized clear request that arrives while a generate call is in
\* flight never gets past its idle check: it does not touch the history and
\* its response is 409 busy
C4_BusyClearRejected ==
    \A t \in Tasks :
        (op[t] = "clearhistory" /\ arrivedBusy[t]) =>
            /\ pc[t] \in {"c_locked", "done"}
            /\ Returned(t) => resp[t] = Response(409, "busy", <<>>)

\* C5: clear_history is never about to run history.clear() (it passed its
\* idle check and holds the history mutex) while a generate call holds the
\* slot
C5_ClearAtomicWithClaim ==
    \A t \in Tasks :
        (pc[t] = "c_history" /\ history_lock = t) => ~(ai_active /\ SomeInFlight)

\* C6: a status request that arrived while a generate call was in flight
\* answers busy, one that arrived while none was in flight answers ready
C6_StatusReflectsArrival ==
    \A t \in Tasks :
        (op[t] = "isbusy" /\ Returned(t) /\ resp[t].status = 200) =>
            resp[t].type = (IF arrivedBusy[t] THEN "busy" ELSE "ready")

\* the header is missing, is not valid text, or differs from the secret
BadHeader(h) ==
    \/ h = None
    \/ h # None /\ \E i \in 1..Len(h[2]) : h[2][i] = "0xFF"
    \/ h # None /\ h[2] # SECRET

SharedState == <<ai_active, ai_lock, ai_wait, history, history_lock, history_wait>>

\* C7: for each of the three operations, a request whose secret header is
\* missing, not valid text or different from the secret is answered 401 at
\* once, and the step that handles it leaves the slot flag, both mutexes and
\* the history as they were
C7_UnauthorizedRejected ==
    [][\A t \in Tasks :
          (pc[t] = "idle" /\ pc'[t] # "idle" /\ BadHeader(hdr'[t])) =>
              /\ pc'[t] = "done"
              /\ resp'[t] = Response(401, "busy", <<>>)
              /\ SharedState' = SharedState]_vars

\* a request whose header is not valid text was answered 401 while a
\* generate call was in flight
C7_Witness ==
    \E t, u \in Tasks :
        /\ Returned(t) /\ resp[t].status = 401
        /\ hdr[t] = Some(<<"k", "e", "y", "0xFF">>)
        /\ InFlight(u)

UserTurn(t) == [message_type |-> "User", content |-> req[t].prompt]

\* s ends with suffix
EndsWith(s, suffix) ==
    /\ Len(s) >= Len(suffix)
    /\ SubSeq(s, Len(s) - Len(suffix) + 1, Len(s)) = suffix

\* the User turn of t as the engine must see it at the end of the prompt
UserTurnThenMarker(t) ==
    <<"<", "|", "u", "s", "e", "r", "|", ">", "\n">> \o req[t].prompt
        \o <<"<", "/", "s", ">", "\n">>
        \o <<"<", "|", "a", "s", "s", "i", "s", "t", "a", "n", "t", "|", ">">>

\* C8: in a generate call whose engine call succeeds, the User turn is in
\* the history, and at the end of the rendered prompt, before the engine is
\* invoked; the Assistant turn is pushed only once the engine has succeeded;
\* the call then leaves ai_active false and the history is the history
\* generate_text found followed by exactly the User and the Assistant turn
C8_SuccessfulGenerate ==
    \A t \in GenerateTasks :
        /\ pc[t] \in {"g_advance", "g_complete", "g_output", "g_assistant"} =>
              /\ history.history = Append(pre, UserTurn(t))
              /\ EndsWith(rendered, UserTurnThenMarker(t))
              /\ ai_active = (pc[t] # "g_assistant")
        /\ (pc[t] \in {"g_drop_history", "g_drop_active"} /\ resp[t].status = 200) =>
              /\ ~ai_active
              /\ resp[t] = Response(200, "success", out[t][2])
        /\ (pc[t] = "g_drop_history" /\ resp[t].status = 200) =>
              history.history =
                  pre \o <<UserTurn(t),
                           [message_type |-> "Assistant", content |-> out[t][2]]>>

\* a generate call with a setup override has succeeded on a history that
\* held turns before it
C8_Witness ==
    \E t \in GenerateTasks :
        /\ pc[t] = "g_drop_history" /\ resp[t].status = 200
        /\ req[t].setup # None
        /\ Len(pre) >= 1
        /\ Len(history.history) = Len(pre) + 2

\* C9 as stated: whichever step of the engine call fails, the response is
\* 500 generate_error, no Assistant turn is pushed and the User turn with
\* the prompt of the request is the last turn of the history
C9_FailureKeepsUserTurn ==
    \A t \in GenerateTasks :
        (pc[t] = "g_drop_history" /\ resp[t].status = 500) =>
            /\ resp[t].type = "generate_error"
            /\ history.history = Append(pre, UserTurn(t))

\* C9 amended: a failure of the context advance or of the start of the
\* completion gives 500 generate_error and leaves the history generate_text
\* found followed by the User turn of the request, with no Assistant turn; a
\* failure of the session creation gives 500 generate_error and leaves the
\* history as generate_text found it, with no User turn pushed
C9_FailureByStep ==
    [][\A t \in Tasks :
          (resp[t] = NoResponse /\ resp'[t].status = 500) =>
              /\ op[t] = "generate"
              /\ resp'[t].type = "generate_error"
              /\ pc'[t] = "g_drop_history"
              /\ pc[t] \in {"g_history", "g_advance", "g_complete"}
              /\ pc[t] = "g_history" => history'.history = pre'
              /\ pc[t] \in {"g_advance", "g_complete"} =>
                    history'.history = Append(pre', UserTurn(t))]_vars

\* the context advance or the completion failed after the User turn was pushed
C9_Witness ==
    \E t \in GenerateTasks :
        /\ pc[t] = "g_drop_history" /\ resp[t].status = 500
        /\ history.history = Append(pre, UserTurn(t))

-----------------------------------------------------------------------------
(* Properties of History *)

\* one turn as the engine expects it: role marker, content, terminator
Serialized(role, content) ==
    (CASE role = "System" -> <<"<", "|", "s", "y", "s", "t", "e", "m", "|", ">", "\n">>
       [] role = "User" -> <<"<", "|", "u", "s", "e", "r", "|", ">", "\n">>
       [] role = "Assistant" ->
            <<"<", "|", "a", "s", "s", "i", "s", "t", "a", "n", "t", "|", ">", "\n">>)
        \o content \o <<"<", "/", "s", ">", "\n">>

\* the stored turns, each serialized, in stored order
RECURSIVE SerializedTurns(_)
SerializedTurns(turns) ==
    IF turns = <<>> THEN <<>>
    ELSE SerializedTurns(SubSeq(turns, 1, Len(turns) - 1))
            \o Serialized(turns[Len(turns)].message_type, turns[Len(turns)].content)

TrailingMarker == <<"<", "|", "a", "s", "s", "i", "s", "t", "a", "n", "t", "|", ">">>

TestLine(role, content) ==
    (CASE role = "System" -> <<"<", "|", "s", "y", "s", "t", "e", "m", "|", ">", "\n">>
       [] role = "User" -> <<"<", "|", "u", "s", "e", "r", "|", ">", "\n">>
       [] role = "Assistant" ->
            <<"<", "|", "a", "s", "s", "i", "s", "t", "a", "n", "t", "|", ">", "\n">>)
        \o content \o <<"\n">>

RECURSIVE TestLines(_)
TestLines(turns) ==
    IF turns = <<>> THEN <<>>
    ELSE TestLine(turns[1].message_type, turns[1].content) \o TestLines(Tail(turns))

\* the turns pushed since History::new, for a History that was not cleared
\* (only History::new stores the greeting, so such a History starts with it)
NotCleared == history.history # <<>> /\ history.history[1].content = GREETING

Pushed == Tail(history.history)

\* C11: on a History built by History::new(s) and extended by pushes only,
\* get() returns the system marker, s and a newline, then for each pushed
\* turn its marker, its content and a single newline, then "<|assistant|>":
\* nothing but the system message and the pushed turns
C11_TestDisplay ==
    (call.method = "get" /\ NotCleared) =>
        call.result = TestLine("System", history.system.content)
                         \o TestLines(Pushed) \o TrailingMarker

\* C12: whatever turns were stored, clear() leaves the system turn as it
\* was and no other turn, the greeting included, and get() then returns
\* exactly the serialized system turn followed by the trailing marker
C12_Clear ==
    [][call'.method = "clear" =>
          /\ history'.system = history.system
          /\ history'.history = <<>>
          /\ get(history') = Serialized("System", history.system.content)
                                \o TrailingMarker]_vars

\* get() was called on a History that clear() has emptied
C12_Witness ==
    /\ call.method = "get"
    /\ history.history = <<>>
    /\ history.system.content = SYSTEM_MESSAGE
    /\ call.result = Serialized("System", SYSTEM_MESSAGE) \o TrailingMarker

-----------------------------------------------------------------------------
(* Further properties of the service *)

\* the generate calls whose prompt has been rendered and whose Assistant
\* turn is not pushed yet
Rendering == {t \in GenerateTasks :
                 pc[t] \in {"g_advance", "g_complete", "g_output", "g_assistant"}}

\* C13: the prompt of a generate call with a setup override is rendered with
\* the override in place of the content of the system turn and with the
\* stored turns as get() renders them; the stored system turn stays what
\* serve() stored, and a call without setup, also after a call with one, is
\* rendered with the stored system content
C13_SetupOverride ==
    /\ history.system = [message_type |-> "System", content |-> SYSTEM_MESSAGE]
    /\ \A t \in Rendering :
          rendered = Serialized("System", IF req[t].setup = <<"None">>
                                          THEN SYSTEM_MESSAGE
                                          ELSE req[t].setup[2])
                        \o SerializedTurns(history.history) \o TrailingMarker

\* a call with a setup override is at the engine while another generate
\* request waits behind it
C13_Witness ==
    \E t \in Rendering, u \in GenerateTasks :
        /\ req[t].setup = <<"Some", <<"T", "e", "r", "s", "e">>>>
        /\ rendered = Serialized("System", <<"T", "e", "r", "s", "e">>)
                         \o SerializedTurns(history.history) \o TrailingMarker
        /\ history.system.content = SYSTEM_MESSAGE
        /\ pc[u] = "g_locked"

\* what a request other than the generate call may do while that call stands
\* between lines 155 and 156: arrive (and be answered 401 or suspend in
\* ai_active.lock().await), or suspend in history.lock().await
MayStepBeside(before, after) ==
    \/ after = before
    \/ before = "idle" /\ after \in {"done", "s_locked", "c_locked", "g_locked"}
    \/ before = "c_idle" /\ after = "c_history"

\* C14: from the step in which handle_generate sets ai_active to false until
\* it has pushed the Assistant turn, the call holds both mutexes, and no
\* other request reads ai_active (none is answered by a handler past line
\* 53, 82 or 134, none passes an idle or busy check) and none reads or
\* changes the history
C14_NoFreeSlotObserved ==
    /\ [](\A t \in Tasks : pc[t] = "g_assistant" =>
             /\ ai_lock = t /\ history_lock = t
             /\ ~ai_active
             /\ history.history = Append(pre, UserTurn(t)))
    /\ [][\A t \in Tasks : pc[t] = "g_assistant" =>
             /\ \A u \in Tasks \ {t} :
                   /\ MayStepBeside(pc[u], pc'[u])
                   /\ resp'[u] # resp[u] => resp'[u].status = 401
                   /\ ai_lock' # u /\ history_lock' # u
             /\ history' # history =>
                   /\ pc'[t] = "g_drop_history"
                   /\ history'.history[Len(history'.history)].message_type = "Assistant"
             /\ rendered' = rendered]_vars

\* the flag is false and the Assistant turn is not pushed yet, while a
\* status request that arrived during the call waits for the ai_active mutex
C14_Witness ==
    \E t, u \in Tasks :
        /\ pc[t] = "g_assistant" /\ ~ai_active
        /\ op[u] = "isbusy" /\ pc[u] = "s_locked" /\ ai_wait = <<u>>

\* the generate calls that have pushed their User turn and not yet their
\* Assistant turn
BetweenTurns == Rendering

\* C15: the two turns of a successful generate call end up adjacent: between
\* its User and its Assistant turn the history changes only by the push of
\* that Assistant turn right after that User turn. Turns follow the order
\* of slot acquisition: every push of a call appends at the end, after all
\* that earlier calls left, and while a call is in flight no other request
\* pushes a turn (another request can at most empty the history, and only
\* before the User turn or after the Assistant turn of the call)
C15_AppendsInOrder ==
    [][\A t \in Tasks :
          /\ t \in BetweenTurns =>
                \/ history' = history
                \/ /\ pc[t] = "g_assistant" /\ pc'[t] = "g_drop_history"
                   /\ history.history[Len(history.history)] = UserTurn(t)
                   /\ history'.history =
                         Append(history.history,
                                [message_type |-> "Assistant", content |-> out[t][2]])
          /\ InFlight(t) =>
                \/ history' = history
                \/ pc'[t] # pc[t] /\ Len(history'.history) = Len(history.history) + 1
                      /\ SubSeq(history'.history, 1, Len(history.history)) = history.history
                \/ pc'[t] = pc[t] /\ t \notin BetweenTurns /\ history'.history = <<>>]_vars

\* a generate call that arrived while another was in flight has pushed both
\* its turns after the two turns of that earlier call
C15_Witness ==
    \E t, u \in GenerateTasks :
        /\ Returned(t) /\ resp[t].status = 200
        /\ arrivedBusy[u] /\ pc[u] = "g_drop_history" /\ resp[u].status = 200
        /\ Len(history.history) = 5
        /\ history.history[4] = UserTurn(u)
        /\ history.history[5].message_type = "Assistant"

\* p is a prefix of s
IsPrefix(p, s) == Len(p) <= Len(s) /\ SubSeq(s, 1, Len(p)) = p

\* the step is the history.clear() of a clear request that passed its idle check
SuccessfulClearStep ==
    \E t \in Tasks :
        /\ op[t] = "clearhistory" /\ pc[t] = "c_history" /\ pc'[t] = "done"
        /\ resp'[t] = Response(200, "success", <<>>)

\* C16: the system turn is never changed after startup, and every step but
\* the history.clear() of a successful clear request (so every step of a
\* status request, of a request answered 401 or 409 and of a generate call)
\* leaves the stored turns as a prefix of the history
C16_AppendOnly ==
    [][/\ history'.system = history.system
       /\ history.system = [message_type |-> "System", content |-> SYSTEM_MESSAGE]
       /\ ~SuccessfulClearStep => IsPrefix(history.history, history'.history)
       /\ \A t \in Tasks :
             (resp'[t] # resp[t] /\ resp'[t].status \in {401, 409})
                 => history' = history
       /\ \A t \in Tasks :
             (op[t] = "isbusy" /\ pc'[t] # pc[t]) => history' = history]_vars

\* a clear request was answered 409 and a turn pushed before it is still stored
C16_Witness ==
    \E t \in Tasks :
        /\ op[t] = "clearhistory" /\ Returned(t) /\ resp[t].status = 409
        /\ Len(history.history) = 2
        /\ history.history[2].message_type = "User"

\* a generate call has failed in the engine (its 500 response is built)
SomeFailed == \E t \in Tasks : resp[t].status = 500

\* a generate call that failed in the engine has returned
SomeFailedReturned == \E t \in Tasks : resp[t].status = 500 /\ Returned(t)

\* the answers open to a request that makes its check after a failed call
LateAnswers ==
    [][SomeFailedReturned =>
          \A u \in Tasks :
              (pc[u] \in {"idle", "s_locked", "c_locked", "g_locked"}
               /\ resp'[u] # resp[u])
                  => \/ resp'[u].status = 401
                     \/ op'[u] = "isbusy" /\ resp'[u] = Response(200, "busy", <<>>)
                     \/ op'[u] \in {"clearhistory", "generate"}
                           /\ resp'[u] = Response(409, "busy", <<>>)]_vars

C18_RolesAlternate ==
    /\ \A i \in 1..Len(history.history) :
          history.history[i].message_type \in {"User", "Assistant"}
    /\ \A i \in 1..(Len(history.history) - 1) :
          history.history[i].message_type # history.history[i + 1].message_type

\* the greeting, the two turns of a successful call and the orphan User
\* turn of a call that failed after its push
C18_Witness ==
    /\ Len(history.history) = 4
    /\ history.history[1].message_type = "Assistant"
    /\ history.history[4].message_type = "User"
    /\ SomeFailedReturned

Pending(t) == pc[t] \notin {"idle", "done"}

\* C19: with every engine call returning and the mutexes handed over first
\* come, first served, no reachable state has a pending request and every
\* pending request blocked on a mutex, and every request that was
\* dispatched receives its response
C19_NoDeadlock ==
    /\ []((\E t \in Tasks : Pending(t)) => \E t \in Tasks : ENABLED Handler(t))
    /\ \A t \in Tasks : Pending(t) ~> Returned(t)

\* a generate call that holds ai_active waits for the history mutex, which
\* a clear request holds
C19_Witness ==
    \E t, u \in Tasks :
        /\ pc[t] = "g_history" /\ ai_lock = t /\ history_wait = <<t>>
        /\ pc[u] = "c_history" /\ history_lock = u

====
